---- MODULE Spec2Model ----
(***************************************************************************)
(* Model of src/lib/firebase/firestore.js: the rating aggregation          *)
(* transaction (addReviewToRestaurant / updateWithRating), the image       *)
(* reference update, the seeding loop, the query composer                  *)
(* (applyQueryFilters) and the three snapshot subscriptions.               *)
(*                                                                         *)
(* The document store is the Firestore client: documents carry a version   *)
(* (their update time); a transaction buffers its writes, and its commit   *)
(* applies them atomically if the documents it read are unchanged, and     *)
(* otherwise re-runs the transaction body, a bounded number of times.      *)
(***************************************************************************)
EXTENDS Integers, Sequences, FiniteSets, TLC

VARIABLES
    restaurants,   \* restaurant id -> [exists, version, data]
    reviews,       \* review document id -> [restaurantId, data]
    calls,         \* addReviewToRestaurant invocations, by call number
    imageOps,      \* number of updateRestaurantImageReference calls made
    seed,          \* position of addFakeRestaurantsAndReviews
    filters,       \* the options handed to applyQueryFilters
    baseQuery,     \* the query value handed to applyQueryFilters
    composed,      \* what applyQueryFilters returned
    subs,          \* subscription calls made, in order
    listeners      \* listeners registered on the store by onSnapshot

vars == <<restaurants, reviews, calls, imageOps, seed,
          filters, baseQuery, composed, subs, listeners>>

aggVars == <<restaurants, reviews, calls, imageOps, seed>>
queryVars == <<filters, baseQuery, composed>>
subVars == <<subs, listeners>>

---------------------------------------------------------------------------
(* Bounds *)

MaxCalls == 2         \* concurrent addReviewToRestaurant calls
MaxAttempts == 2      \* times the store runs a transaction body before giving up
MaxImageOps == 1      \* image reference updates
MaxSeedRatings == 1   \* reviews the seeding loop adds
MaxSubs == 2          \* subscription calls

---------------------------------------------------------------------------
(* JavaScript values *)

Undefined == [type |-> "undefined"]
Num(n) == [type |-> "number", n |-> n]
Str(s) == [type |-> "string", s |-> s]
Fn == [type |-> "function"]
ErrorOf(message) == [type |-> "object", class |-> "Error", message |-> message]
StoreError(code) == [type |-> "object", class |-> "FirestoreError", code |-> code]

\* ToBoolean, as used by !x, x ? a : b and x || y
Truthy(v) ==
    CASE v.type = "undefined" -> FALSE
      [] v.type = "number" -> v.n # 0
      [] v.type = "string" -> v.s # ""
      [] OTHER -> TRUE

typeof(v) == IF v.type = "object" THEN "object" ELSE v.type

\* x || y
OrElse(x, y) == IF Truthy(x) THEN x ELSE y

\* data?.f
Field(data, f) == IF data = Undefined THEN Undefined ELSE data[f]

Abs(n) == IF n < 0 THEN -n ELSE n

RECURSIVE GCD(_, _)
GCD(a, b) == IF b = 0 THEN a ELSE GCD(b, a % b)

\* a / b on numbers: the exact quotient, kept as a fraction in lowest terms
Divide(a, b) ==
    IF b = 0
    THEN [type |-> "number", special |-> IF a = 0 THEN "NaN" ELSE "Infinity"]
    ELSE LET g == GCD(Abs(a), Abs(b))
             s == IF b < 0 THEN -1 ELSE 1
         IN [type |-> "number", p |-> s * (a \div g), q |-> s * (b \div g)]

---------------------------------------------------------------------------
(* The store *)

RestaurantIds == {"r1", "r2"}
InitialIds == {"r1"}

NoDoc == [exists |-> FALSE, version |-> 0, data |-> Undefined]

ZeroData == [numRatings |-> Num(0), sumRating |-> Num(0),
             avgRating |-> Divide(0, 1), photo |-> Str("p0")]
BareData == [numRatings |-> Undefined, sumRating |-> Undefined,
             avgRating |-> Undefined, photo |-> Str("p0")]

Ratings == {-1, 2}
ReviewPayloads == {[type |-> "object", rating |-> Num(r), timestamp |-> "caller"] : r \in Ratings}
IdArgs == {Undefined, Str("")} \cup {Str(r) : r \in RestaurantIds}
ReviewArgs == {Undefined} \cup ReviewPayloads

Calls == 1 .. MaxCalls
SeedCalls == {1, 2}

IdleCall == [pc |-> "idle", restaurantId |-> Undefined, review |-> Undefined,
             refs |-> FALSE, tx |-> FALSE, attempts |-> 0, readVersion |-> 0,
             writes |-> <<>>, rejected |-> Undefined, thrown |-> Undefined,
             logged |-> FALSE]

\* Mutant: every call writes the same review document
fixedRatingDocument(c) == <<"tx", 0>>

\* doc(collection(db, `restaurants/${restaurantId}/ratings`)): a fresh document id
newRatingDocument(c) == <<"tx", c>>

\* Timestamp.fromDate(new Date()): the time at which call c's body runs for
\* the attempt-th time
Now(c, attempt) == <<"now", c, attempt>>

---------------------------------------------------------------------------
(* updateWithRating: the transaction body *)

\* Number(x)
Number(v) == IF v.type = "number" THEN v ELSE [type |-> "number", special |-> "NaN"]

\* data?.numRatings ? data.numRatings + 1 : 1
NewNumRatings(data) ==
    IF Truthy(Field(data, "numRatings")) THEN Field(data, "numRatings").n + 1 ELSE 1

\* Mutant: the previous sum is dropped
NewSumRatingOverwrite(data, review) == Number(review.rating).n

\* Mutant: the rating is subtracted
NewSumRatingSubtract(data, review) ==
    OrElse(Field(data, "sumRating"), Num(0)).n - Number(review.rating).n

\* (data?.sumRating || 0) + Number(review.rating)
NewSumRating(data, review) ==
    OrElse(Field(data, "sumRating"), Num(0)).n + Number(review.rating).n

\* Mutant: the average is truncated to an integer
NewAverageTruncated(newSumRating, newNumRatings) ==
    Divide(newSumRating \div newNumRatings, 1)

\* newSumRating / newNumRatings
NewAverage(newSumRating, newNumRatings) == Divide(newSumRating, newNumRatings)

\* The writes the body buffers on the transaction: the update of the
\* restaurant's three aggregate fields and the set of the review document.
updateWithRating(data, review, now) ==
    LET newNumRatings == NewNumRatings(data)
        newSumRating == NewSumRating(data, review)
        newAverage == NewAverage(newSumRating, newNumRatings)
    IN [update |-> [numRatings |-> Num(newNumRatings),
                    sumRating |-> Num(newSumRating),
                    avgRating |-> newAverage],
        set |-> [review EXCEPT !.timestamp = now]]

\* transaction.update(docRef, fields) applied to the stored document
ApplyUpdate(doc, fields) ==
    [doc EXCEPT !.version = @ + 1,
                !.data = [f \in DOMAIN doc.data |->
                            IF f \in DOMAIN fields THEN fields[f] ELSE doc.data[f]]]

\* transaction.set(ref, data) applied to the ratings subcollection
ApplySet(all, id, restaurantId, data) ==
    [i \in DOMAIN all \cup {id} |->
        IF i = id THEN [restaurantId |-> restaurantId, data |-> data] ELSE all[i]]

\* Mutant: the commit applies the aggregate update without the review
CommitUpdateOnly(c, r) ==
    /\ restaurants' = [restaurants EXCEPT ![r] = ApplyUpdate(@, calls[c].writes.update)]
    /\ reviews' = reviews

\* The commit of a transaction: both buffered writes, or neither
CommitWrites(c, r) ==
    /\ restaurants' = [restaurants EXCEPT ![r] = ApplyUpdate(@, calls[c].writes.update)]
    /\ reviews' = ApplySet(reviews, newRatingDocument(c), r, calls[c].writes.set)

\* catch (error) { console.error(...); throw error; }
Catch(call, error) ==
    [call EXCEPT !.pc = "threw", !.rejected = error, !.logged = TRUE,
                 !.thrown = error, !.writes = <<>>]

---------------------------------------------------------------------------
(* addReviewToRestaurant *)

\* Mutant: the document references are built before the precondition checks
AddReviewRefsFirst(c, restaurantId, review) ==
    /\ calls[c].pc = "idle"
    /\ c > 1 => calls[c - 1].pc # "idle"
    /\ calls' = [calls EXCEPT ![c] =
          IF ~Truthy(restaurantId)
          THEN [@ EXCEPT !.pc = "threw", !.restaurantId = restaurantId,
                         !.review = review, !.refs = TRUE,
                         !.thrown = ErrorOf("No restaurant ID has been provided.")]
          ELSE IF ~Truthy(review)
          THEN [@ EXCEPT !.pc = "threw", !.restaurantId = restaurantId,
                         !.review = review, !.refs = TRUE,
                         !.thrown = ErrorOf("A valid review has not been provided.")]
          ELSE [@ EXCEPT !.pc = "body", !.restaurantId = restaurantId,
                         !.review = review, !.refs = TRUE, !.tx = TRUE,
                         !.attempts = 1]]
    /\ UNCHANGED <<restaurants, reviews, imageOps, seed>>

\* The call up to its first await: the two precondition checks, the two
\* document references and the start of the transaction.
AddReviewToRestaurant(c, restaurantId, review) ==
    /\ calls[c].pc = "idle"
    /\ c > 1 => calls[c - 1].pc # "idle"
    /\ calls' = [calls EXCEPT ![c] =
          IF ~Truthy(restaurantId)
          THEN [@ EXCEPT !.pc = "threw", !.restaurantId = restaurantId,
                         !.review = review,
                         !.thrown = ErrorOf("No restaurant ID has been provided.")]
          ELSE IF ~Truthy(review)
          THEN [@ EXCEPT !.pc = "threw", !.restaurantId = restaurantId,
                         !.review = review,
                         !.thrown = ErrorOf("A valid review has not been provided.")]
          ELSE [@ EXCEPT !.pc = "body", !.restaurantId = restaurantId,
                         !.review = review, !.refs = TRUE, !.tx = TRUE,
                         !.attempts = 1]]
    /\ UNCHANGED <<restaurants, reviews, imageOps, seed>>

\* One run of the transaction body: transaction.get, then the two buffered
\* writes.  transaction.update of a document read as missing is an error of
\* the body, which ends the transaction.
RunBody(c) ==
    /\ calls[c].pc = "body"
    /\ LET r == calls[c].restaurantId.s
           snap == restaurants[r]
       IN calls' = [calls EXCEPT ![c] =
             IF ~snap.exists
             THEN Catch(@, StoreError("invalid-argument"))
             ELSE [@ EXCEPT !.pc = "commit", !.readVersion = snap.version,
                            !.writes = updateWithRating(snap.data, calls[c].review, Now(c, calls[c].attempts))]]
    /\ UNCHANGED <<restaurants, reviews, imageOps, seed>>

\* transaction.get rejects: the read fails
ReadFails(c) ==
    /\ calls[c].pc = "body"
    /\ calls' = [calls EXCEPT ![c] = Catch(@, StoreError("unavailable"))]
    /\ UNCHANGED <<restaurants, reviews, imageOps, seed>>

\* Mutant: the commit does not compare the restaurant with what was read
CommitBlind(c) ==
    /\ calls[c].pc = "commit"
    /\ CommitWrites(c, calls[c].restaurantId.s)
    /\ calls' = [calls EXCEPT ![c].pc = "committed", ![c].writes = <<>>]
    /\ UNCHANGED <<imageOps, seed>>

\* The store commits the transaction if the restaurant is as it was read
CommitOk(c) ==
    /\ calls[c].pc = "commit"
    /\ LET r == calls[c].restaurantId.s
       IN /\ restaurants[r].version = calls[c].readVersion
          /\ CommitWrites(c, r)
    /\ calls' = [calls EXCEPT ![c].pc = "committed", ![c].writes = <<>>]
    /\ UNCHANGED <<imageOps, seed>>

\* A write conflict: the restaurant changed since it was read.  The buffered
\* writes are dropped and the body is run again
CommitConflictRetry(c) ==
    /\ calls[c].pc = "commit"
    /\ restaurants[calls[c].restaurantId.s].version # calls[c].readVersion
    /\ calls[c].attempts < MaxAttempts
    /\ calls' = [calls EXCEPT ![c].pc = "body", ![c].writes = <<>>,
                              ![c].attempts = @ + 1]
    /\ UNCHANGED <<restaurants, reviews, imageOps, seed>>

\* A write conflict on the last attempt: runTransaction rejects
CommitConflictFail(c) ==
    /\ calls[c].pc = "commit"
    /\ restaurants[calls[c].restaurantId.s].version # calls[c].readVersion
    /\ calls[c].attempts >= MaxAttempts
    /\ calls' = [calls EXCEPT ![c] = Catch(@, StoreError("aborted"))]
    /\ UNCHANGED <<restaurants, reviews, imageOps, seed>>

\* await runTransaction(...) resumes and the call returns
Return(c) ==
    /\ calls[c].pc = "committed"
    /\ calls' = [calls EXCEPT ![c].pc = "done"]
    /\ UNCHANGED <<restaurants, reviews, imageOps, seed>>

---------------------------------------------------------------------------
(* updateRestaurantImageReference *)

PhotoUrls == {"u1"}

\* updateDoc(restaurantRef, { photo }): rejects when the document is missing
updateRestaurantImageReference(r, publicImageUrl) ==
    /\ imageOps < MaxImageOps
    /\ imageOps' = imageOps + 1
    /\ restaurants' = [restaurants EXCEPT ![r] =
          IF @.exists THEN ApplyUpdate(@, [photo |-> Str(publicImageUrl)]) ELSE @]
    /\ UNCHANGED <<reviews, calls, seed>>

---------------------------------------------------------------------------
(* addFakeRestaurantsAndReviews: the generator's data is any of SeedData *)

SeedRestaurantData ==
    {[numRatings |-> Num(1), sumRating |-> Num(3), avgRating |-> Divide(3, 1),
      photo |-> Str("p0")]}
SeedRatingData == {[type |-> "object", rating |-> Num(3), timestamp |-> "generator"]}

SeededRatings == {i \in DOMAIN reviews : i[1] = "seed"}

\* await generateFakeRestaurantsAndReviews()
SeedStart ==
    /\ seed.pc = "idle"
    /\ seed' = [seed EXCEPT !.pc = "loop"]
    /\ UNCHANGED <<restaurants, reviews, calls, imageOps>>

\* addDoc(collection(db, "restaurants"), restaurantData): a new document
SeedRestaurant(r, restaurantData) ==
    /\ seed.pc = "loop"
    /\ ~restaurants[r].exists
    /\ restaurants' = [restaurants EXCEPT ![r] =
          [exists |-> TRUE, version |-> @.version + 1, data |-> restaurantData]]
    /\ seed' = [pc |-> "ratings", docRef |-> r]
    /\ UNCHANGED <<reviews, calls, imageOps>>

\* addDoc(collection(db, "restaurants", docRef.id, "ratings"), ratingData)
SeedRating(ratingData) ==
    /\ seed.pc = "ratings"
    /\ Cardinality(SeededRatings) < MaxSeedRatings
    /\ reviews' = ApplySet(reviews, <<"seed", Cardinality(SeededRatings) + 1>>,
                           seed.docRef, ratingData)
    /\ UNCHANGED <<restaurants, calls, imageOps, seed>>

\* The inner loop ends, or an addDoc rejects and the catch logs it: next item
SeedNextItem ==
    /\ seed.pc = "ratings"
    /\ seed' = [seed EXCEPT !.pc = "loop"]
    /\ UNCHANGED <<restaurants, reviews, calls, imageOps>>

\* The outer loop ends
SeedEnd ==
    /\ seed.pc = "loop"
    /\ seed' = [seed EXCEPT !.pc = "done"]
    /\ UNCHANGED <<restaurants, reviews, calls, imageOps>>

---------------------------------------------------------------------------
(* applyQueryFilters *)

where(field, op, value) == [kind |-> "where", field |-> field, op |-> op, value |-> value]
orderBy(field, dir) == [kind |-> "orderBy", field |-> field, dir |-> dir]

\* query(q, constraint): a new query value, q with the constraint added
query(q, constraint) == [q EXCEPT !.constraints = Append(@, constraint)]

\* query(collection(db, "restaurants"))
RestaurantsQuery == [path |-> "restaurants", constraints |-> <<>>]

\* Mutant: the price option is compared as it is given
LengthAsIs(v) == v

\* x.length
Length(v) == IF v.type = "string" THEN Num(Len(v.s)) ELSE Undefined

\* Lines 99-112: one equality predicate for each option that is truthy
applyFilters(q, opts) ==
    LET q1 == IF Truthy(opts.category)
              THEN query(q, where("category", "==", opts.category)) ELSE q
        q2 == IF Truthy(opts.city)
              THEN query(q1, where("city", "==", opts.city)) ELSE q1
    IN IF Truthy(opts.price)
       THEN query(q2, where("price", "==", Length(opts.price))) ELSE q2

\* Mutant: every other sort value orders by avgRating
applySortFallback(q, sort) ==
    IF sort = Str("Review")
    THEN query(q, orderBy("numRatings", "desc"))
    ELSE query(q, orderBy("avgRating", "desc"))

\* Lines 114-119: the ordering
applySort(q, sort) ==
    IF sort = Str("Rating") \/ ~Truthy(sort)
    THEN query(q, orderBy("avgRating", "desc"))
    ELSE IF sort = Str("Review")
    THEN query(q, orderBy("numRatings", "desc"))
    ELSE q

applyQueryFilters(q, opts) == applySort(applyFilters(q, opts), opts.sort)

CategoryArgs == {Undefined, Str(""), Str("Indian")}
CityArgs == {Undefined, Str(""), Str("Pune")}
PriceArgs == {Undefined, Str(""), Str("$"), Str("$$"), Str("$$$$")}
SortArgs == {Undefined, Str(""), Str("Rating"), Str("Review"), Str("Price")}
FilterArgs == [category : CategoryArgs, city : CityArgs, price : PriceArgs, sort : SortArgs]

\* A caller composes a query: q = applyQueryFilters(q, filters)
ApplyQueryFilters ==
    /\ composed = Undefined
    /\ composed' = applyQueryFilters(baseQuery, filters)
    /\ UNCHANGED <<filters, baseQuery>>

---------------------------------------------------------------------------
(* The snapshot subscriptions *)

CallbackArgs == {Fn, Undefined, Str("cb")}
SubIdArgs == {Undefined, Str(""), Str("r1")}
SubFilterArgs ==
    {[category |-> Undefined, city |-> Undefined, price |-> Undefined, sort |-> Undefined],
     [category |-> Str("Indian"), city |-> Undefined, price |-> Str("$$"),
      sort |-> Str("Review")]}

\* onSnapshot(target, wrapper): the store keeps the listener; the wrapper
\* maps the snapshot and hands it to cb
onSnapshot(all, id, target, cb) ==
    [i \in DOMAIN all \cup {id} |->
        IF i = id THEN [target |-> target, cb |-> cb, outcome |-> "none"] ELSE all[i]]

SubCall(fn, restaurantId, cb, registered, log) ==
    [fn |-> fn, restaurantId |-> restaurantId, cb |-> cb,
     registered |-> registered, log |-> log]

getRestaurantsSnapshot(cb, fopts) ==
    /\ Len(subs) < MaxSubs
    /\ IF typeof(cb) # "function"
       THEN /\ subs' = Append(subs, SubCall("getRestaurantsSnapshot", Undefined, cb, FALSE,
                                "Error: The callback parameter is not a function"))
            /\ UNCHANGED listeners
       ELSE /\ subs' = Append(subs, SubCall("getRestaurantsSnapshot", Undefined, cb, TRUE, ""))
            /\ listeners' = onSnapshot(listeners, Len(subs) + 1,
                                       applyQueryFilters(RestaurantsQuery, fopts), cb)

getRestaurantSnapshotById(restaurantId, cb) ==
    /\ Len(subs) < MaxSubs
    /\ IF ~Truthy(restaurantId)
       THEN /\ subs' = Append(subs, SubCall("getRestaurantSnapshotById", restaurantId, cb,
                                FALSE, "Error: Invalid ID received: "))
            /\ UNCHANGED listeners
       ELSE IF typeof(cb) # "function"
       THEN /\ subs' = Append(subs, SubCall("getRestaurantSnapshotById", restaurantId, cb,
                                FALSE, "Error: The callback parameter is not a function"))
            /\ UNCHANGED listeners
       ELSE /\ subs' = Append(subs, SubCall("getRestaurantSnapshotById", restaurantId, cb,
                                TRUE, ""))
            /\ listeners' = onSnapshot(listeners, Len(subs) + 1,
                                       [path |-> <<"restaurants", restaurantId.s>>], cb)

getReviewsSnapshotByRestaurantId(restaurantId, cb) ==
    /\ Len(subs) < MaxSubs
    /\ IF ~Truthy(restaurantId)
       THEN /\ subs' = Append(subs, SubCall("getReviewsSnapshotByRestaurantId", restaurantId,
                                cb, FALSE, "Error: Invalid restaurantId received: "))
            /\ UNCHANGED listeners
       ELSE /\ subs' = Append(subs, SubCall("getReviewsSnapshotByRestaurantId", restaurantId,
                                cb, TRUE, ""))
            /\ listeners' = onSnapshot(listeners, Len(subs) + 1,
                  query([path |-> <<"restaurants", restaurantId.s, "ratings">>,
                         constraints |-> <<>>], orderBy("timestamp", "desc")), cb)

\* The store delivers a snapshot to a listener: the wrapper calls cb(results),
\* which raises a TypeError when cb is not callable
Deliver(l) ==
    /\ l \in DOMAIN listeners
    /\ listeners[l].outcome = "none"
    /\ listeners' = [listeners EXCEPT ![l].outcome =
          IF typeof(listeners[l].cb) = "function" THEN "delivered" ELSE "TypeError"]
    /\ UNCHANGED subs

\* The caller invokes the unsubscribe handle onSnapshot returned
Unsubscribe(l) ==
    /\ l \in DOMAIN listeners
    /\ listeners[l].outcome # "none"
    /\ listeners' = [i \in DOMAIN listeners \ {l} |-> listeners[i]]
    /\ UNCHANGED subs

---------------------------------------------------------------------------
(* Specifications *)

Idle ==
    /\ reviews = <<>>
    /\ calls = [c \in Calls |-> IdleCall]
    /\ imageOps = 0
    /\ seed = [pc |-> "idle", docRef |-> "none"]
    /\ filters = Undefined
    /\ baseQuery = Undefined
    /\ composed = Undefined
    /\ subs = <<>>
    /\ listeners = <<>>

\* The store holds the restaurants of InitialIds, none of them reviewed yet,
\* with the aggregate fields zero or not yet set
Init ==
    /\ restaurants \in {f \in [RestaurantIds -> {NoDoc} \cup
                                 {[exists |-> TRUE, version |-> 1, data |-> d] :
                                     d \in {ZeroData, BareData}}] :
                          \A r \in RestaurantIds : f[r].exists <=> r \in InitialIds}
    /\ Idle

Next ==
    \/ \E c \in Calls, id \in IdArgs, review \in ReviewArgs :
          AddReviewToRestaurant(c, id, review) /\ UNCHANGED <<queryVars, subVars>>
    \/ \E c \in Calls : RunBody(c) /\ UNCHANGED <<queryVars, subVars>>
    \/ \E c \in Calls : ReadFails(c) /\ UNCHANGED <<queryVars, subVars>>
    \/ \E c \in Calls : CommitOk(c) /\ UNCHANGED <<queryVars, subVars>>
    \/ \E c \in Calls : CommitConflictRetry(c) /\ UNCHANGED <<queryVars, subVars>>
    \/ \E c \in Calls : CommitConflictFail(c) /\ UNCHANGED <<queryVars, subVars>>
    \/ \E c \in Calls : Return(c) /\ UNCHANGED <<queryVars, subVars>>
    \/ \E r \in RestaurantIds, url \in PhotoUrls :
          updateRestaurantImageReference(r, url) /\ UNCHANGED <<queryVars, subVars>>

\* Concurrent addReviewToRestaurant calls and image updates
Spec == Init /\ [][Next]_vars

NextSeed ==
    \/ \E c \in SeedCalls, id \in IdArgs, review \in ReviewArgs :
          AddReviewToRestaurant(c, id, review) /\ UNCHANGED <<queryVars, subVars>>
    \/ \E c \in SeedCalls : RunBody(c) /\ UNCHANGED <<queryVars, subVars>>
    \/ \E c \in SeedCalls : ReadFails(c) /\ UNCHANGED <<queryVars, subVars>>
    \/ \E c \in SeedCalls : CommitOk(c) /\ UNCHANGED <<queryVars, subVars>>
    \/ \E c \in SeedCalls : CommitConflictRetry(c) /\ UNCHANGED <<queryVars, subVars>>
    \/ \E c \in SeedCalls : CommitConflictFail(c) /\ UNCHANGED <<queryVars, subVars>>
    \/ \E c \in SeedCalls : Return(c) /\ UNCHANGED <<queryVars, subVars>>
    \/ \E r \in RestaurantIds, url \in PhotoUrls :
          updateRestaurantImageReference(r, url) /\ UNCHANGED <<queryVars, subVars>>
    \/ SeedStart /\ UNCHANGED <<queryVars, subVars>>
    \/ \E r \in RestaurantIds, d \in SeedRestaurantData :
          SeedRestaurant(r, d) /\ UNCHANGED <<queryVars, subVars>>
    \/ \E d \in SeedRatingData : SeedRating(d) /\ UNCHANGED <<queryVars, subVars>>
    \/ SeedNextItem /\ UNCHANGED <<queryVars, subVars>>
    \/ SeedEnd /\ UNCHANGED <<queryVars, subVars>>

\* The same, by the calls of SeedCalls, while addFakeRestaurantsAndReviews runs
SpecSeed == Init /\ [][NextSeed]_vars

InitQuery ==
    /\ restaurants = [r \in RestaurantIds |-> NoDoc]
    /\ reviews = <<>>
    /\ calls = [c \in Calls |-> IdleCall]
    /\ imageOps = 0
    /\ seed = [pc |-> "idle", docRef |-> "none"]
    /\ filters \in FilterArgs
    /\ baseQuery = RestaurantsQuery
    /\ composed = Undefined
    /\ subs = <<>>
    /\ listeners = <<>>

NextQuery == ApplyQueryFilters /\ UNCHANGED <<aggVars, subVars>>

\* applyQueryFilters on every combination of options
SpecQuery == InitQuery /\ [][NextQuery]_vars

InitSub ==
    /\ restaurants = [r \in RestaurantIds |-> NoDoc]
    /\ Idle

NextSub ==
    \/ \E cb \in CallbackArgs, f \in SubFilterArgs :
          getRestaurantsSnapshot(cb, f) /\ UNCHANGED <<aggVars, queryVars>>
    \/ \E id \in SubIdArgs, cb \in CallbackArgs :
          getRestaurantSnapshotById(id, cb) /\ UNCHANGED <<aggVars, queryVars>>
    \/ \E id \in SubIdArgs, cb \in CallbackArgs :
          getReviewsSnapshotByRestaurantId(id, cb) /\ UNCHANGED <<aggVars, queryVars>>
    \/ \E l \in 1 .. MaxSubs : Deliver(l) /\ UNCHANGED <<aggVars, queryVars>>
    \/ \E l \in 1 .. MaxSubs : Unsubscribe(l) /\ UNCHANGED <<aggVars, queryVars>>

\* The three subscription operations and the store's deliveries
SpecSub == InitSub /\ [][NextSub]_vars

---------------------------------------------------------------------------
(* Properties *)

ReviewsOf(r) == {i \in DOMAIN reviews : reviews[i].restaurantId = r}
TxReviews == {i \in DOMAIN reviews : i[1] = "tx"}

RECURSIVE SumRatings(_)
SumRatings(ids) ==
    IF ids = {} THEN 0
    ELSE LET i == CHOOSE x \in ids : TRUE
         IN reviews[i].data.rating.n + SumRatings(ids \ {i})

RECURSIVE SumCallRatings(_)
SumCallRatings(cs) ==
    IF cs = {} THEN 0
    ELSE LET c == CHOOSE x \in cs : TRUE
         IN calls[c].review.rating.n + SumCallRatings(cs \ {c})

InFlight(c) == calls[c].pc \in {"body", "commit", "committed"}
Succeeded(r) == {c \in Calls : calls[c].pc = "done" /\ calls[c].restaurantId = Str(r)}
Retried(c) == calls[c].attempts >= 2

\* numRatings and sumRating as numbers, an unset field read as 0
NumOf(doc) == OrElse(Field(doc.data, "numRatings"), Num(0)).n
SumOf(doc) == OrElse(Field(doc.data, "sumRating"), Num(0)).n

\* C1: in every committed store state, each restaurant that started with no
\* reviews and zero (or unset) aggregates has numRatings equal to the number
\* of its review records and sumRating equal to the sum of their ratings.
C1_AggregatesMatchReviews ==
    \A r \in InitialIds :
        LET d == restaurants[r].data
        IN IF d.numRatings = Undefined
           THEN ReviewsOf(r) = {}
           ELSE /\ d.numRatings = Num(Cardinality(ReviewsOf(r)))
                /\ d.sumRating = Num(SumRatings(ReviewsOf(r)))

\* Two concurrent calls on one restaurant both committed, one after a retry
C1_Witness ==
    \E r \in InitialIds :
        /\ Cardinality(ReviewsOf(r)) = 2
        /\ restaurants[r].data.numRatings = Num(2)
        /\ \E c \in Calls : Retried(c) /\ newRatingDocument(c) \in ReviewsOf(r)

\* C2: once no call is in flight, the restaurant's numRatings is the number of
\* calls on it that returned successfully and its sumRating the sum of their
\* ratings, whatever the interleaving, the commit order and the retries.
C2_NoLostUpdate ==
    (\A c \in Calls : ~InFlight(c)) =>
        \A r \in InitialIds :
            /\ NumOf(restaurants[r]) = Cardinality(Succeeded(r))
            /\ SumOf(restaurants[r]) = SumCallRatings(Succeeded(r))

\* Every call returned successfully on the same restaurant, one of them after
\* its body was run again
C2_Witness ==
    /\ \A c \in Calls : calls[c].pc = "done" /\ calls[c].restaurantId = Str("r1")
    /\ \E c \in Calls : Retried(c)
    /\ NumOf(restaurants["r1"]) = MaxCalls

\* C3: a step changes a restaurant's aggregates exactly when it adds a review
\* record of that restaurant; a step in which a call's transaction fails
\* leaves the restaurants and the reviews as they were, the call's review
\* record does not exist, and the call throws the error the transaction
\* rejected with, after logging it.
C3_AtomicOrNothing ==
    [][/\ \A r \in RestaurantIds :
             (restaurants'[r].exists /\ restaurants[r].exists) =>
                 ( <<restaurants'[r].data.numRatings, restaurants'[r].data.sumRating,
                     restaurants'[r].data.avgRating>>
                   # <<restaurants[r].data.numRatings, restaurants[r].data.sumRating,
                       restaurants[r].data.avgRating>>
                   <=> \E i \in DOMAIN reviews' \ DOMAIN reviews :
                           reviews'[i].restaurantId = r )
       /\ \A c \in Calls :
             (calls[c].tx /\ calls[c].pc # "threw" /\ calls'[c].pc = "threw") =>
                 /\ restaurants' = restaurants
                 /\ reviews' = reviews
                 /\ newRatingDocument(c) \notin DOMAIN reviews'
                 /\ calls'[c].logged
                 /\ calls'[c].rejected # Undefined
                 /\ calls'[c].thrown = calls'[c].rejected]_vars

\* One call failed on an unrecoverable conflict while another one committed
C3_Witness ==
    \E c, d \in Calls :
        /\ calls[c].pc = "threw"
        /\ calls[c].rejected = StoreError("aborted")
        /\ calls[d].pc = "done"
        /\ newRatingDocument(d) \in DOMAIN reviews
        /\ newRatingDocument(c) \notin DOMAIN reviews

\* C4: a restaurant to which the aggregation transaction applied a review has
\* avgRating = sumRating / numRatings, that is avgRating * numRatings =
\* sumRating, also after image reference updates.
C4_AverageIsRatio ==
    \A r \in RestaurantIds :
        (ReviewsOf(r) \cap TxReviews # {}) =>
            LET d == restaurants[r].data
            IN /\ DOMAIN d.avgRating = {"type", "p", "q"}
               /\ d.avgRating.q > 0
               /\ d.avgRating.p * d.numRatings.n = d.sumRating.n * d.avgRating.q
               /\ d.avgRating = Divide(d.sumRating.n, d.numRatings.n)

\* Two reviews with a fractional average, and the image reference updated
C4_Witness ==
    \E r \in RestaurantIds :
        /\ Cardinality(ReviewsOf(r) \cap TxReviews) = 2
        /\ restaurants[r].data.avgRating.q = 2
        /\ restaurants[r].data.photo = Str("u1")

InvalidArguments(call) == ~Truthy(call.restaurantId) \/ ~Truthy(call.review)
PreconditionErrors ==
    {ErrorOf("No restaurant ID has been provided."),
     ErrorOf("A valid review has not been provided.")}

\* C5: a call with an absent or empty restaurant id, or an absent review,
\* throws a precondition error at once: it builds no document reference,
\* starts no transaction and leaves the store as it is.
C5_PreconditionsFailFast ==
    [][\A c \in Calls :
          (calls[c].pc = "idle" /\ calls'[c].pc # "idle" /\ InvalidArguments(calls'[c])) =>
              /\ calls'[c].pc = "threw"
              /\ calls'[c].thrown \in PreconditionErrors
              /\ ~calls'[c].logged
              /\ ~calls'[c].refs
              /\ ~calls'[c].tx
              /\ restaurants' = restaurants
              /\ reviews' = reviews]_vars

\* A call with the empty id and one with no review have thrown, while a
\* review of another call is committed
C5_Witness ==
    \E c, d \in Calls :
        /\ calls[c].pc = "threw"
        /\ InvalidArguments(calls[c])
        /\ calls[c].restaurantId \in {Str(""), Undefined}
        /\ calls[d].pc = "committed"

OrderBys(q) == SelectSeq(q.constraints, LAMBDA k : k.kind = "orderBy")
Wheres(q) == SelectSeq(q.constraints, LAMBDA k : k.kind = "where")

\* C6, as the specification states it: exactly one ordering, numRatings
\* descending for sort "Review" and avgRating descending for every other
\* sort value, unrecognized ones included.
C6_OneOrderingAlways ==
    composed # Undefined =>
        OrderBys(composed) =
            << IF filters.sort = Str("Review")
               THEN orderBy("numRatings", "desc")
               ELSE orderBy("avgRating", "desc") >>

\* C6, amended: numRatings descending for sort "Review"; avgRating descending
\* for sort "Rating" and for an absent or empty sort; no ordering at all for
\* any other sort value.  Never more than one ordering.
C6_OrderingBySort ==
    composed # Undefined =>
        OrderBys(composed) =
            IF filters.sort = Str("Review")
            THEN << orderBy("numRatings", "desc") >>
            ELSE IF filters.sort \in {Undefined, Str(""), Str("Rating")}
            THEN << orderBy("avgRating", "desc") >>
            ELSE << >>

\* An unrecognized sort value was composed, with filters present
C6_Witness ==
    /\ composed # Undefined
    /\ filters.sort = Str("Price")
    /\ Len(Wheres(composed)) = 3
    /\ OrderBys(composed) = << >>

Present(v) == v \notin {Undefined, Str("")}

\* The integer tier a string of price symbols stands for
Tier(symbols) ==
    CASE symbols = "$" -> 1
      [] symbols = "$$" -> 2
      [] symbols = "$$$" -> 3
      [] symbols = "$$$$" -> 4

\* C7: the composed query holds one equality predicate for each of category,
\* city and price that is present, on the field of that name, and none for an
\* absent or empty option; the price predicate compares with the integer
\* tier ("$$" with 2); the query handed in is as it was.
C7_OnePredicatePerOption ==
    composed # Undefined =>
        LET W == Wheres(composed)
        IN /\ baseQuery = RestaurantsQuery
           /\ \A f \in {"category", "city", "price"} :
                 Cardinality({k \in 1 .. Len(W) : W[k].field = f})
                     = IF Present(filters[f]) THEN 1 ELSE 0
           /\ \A k \in 1 .. Len(W) :
                 /\ W[k].op = "=="
                 /\ W[k].field \in {"category", "city", "price"}
                 /\ W[k].value = IF W[k].field = "price"
                                 THEN Num(Tier(filters.price.s))
                                 ELSE filters[W[k].field]

\* Category "Indian" and price "$$" composed: the price predicate is on 2
C7_Witness ==
    /\ composed # Undefined
    /\ filters.category = Str("Indian")
    /\ filters.city = Undefined
    /\ filters.price = Str("$$")
    /\ Wheres(composed) = << where("category", "==", Str("Indian")),
                             where("price", "==", Num(2)) >>

Committed(c) == calls[c].pc \in {"committed", "done"}
CommittedCalls == {c \in Calls : Committed(c)}

\* C8: every call whose transaction committed has exactly one review record,
\* with its restaurant and its rating, however many times its body ran; and
\* no step of any operation changes or removes a review record that exists.
C8_OneRecordNeverChanged ==
    [][/\ \A i \in DOMAIN reviews : i \in DOMAIN reviews' /\ reviews'[i] = reviews[i]
       /\ Cardinality(TxReviews') = Cardinality(CommittedCalls')
       /\ \A c \in CommittedCalls' :
             /\ newRatingDocument(c) \in DOMAIN reviews'
             /\ reviews'[newRatingDocument(c)].restaurantId = calls'[c].restaurantId.s
             /\ reviews'[newRatingDocument(c)].data.rating = calls'[c].review.rating]_vars

\* A call returned after its body ran twice: its one record carries the time
\* of the second run; the seeding loop has added a review too
C8_Witness ==
    \E c \in Calls :
        /\ calls[c].pc = "done"
        /\ Retried(c)
        /\ newRatingDocument(c) \in DOMAIN reviews
        /\ reviews[newRatingDocument(c)].data.timestamp = Now(c, 2)
        /\ \E i \in DOMAIN reviews : i[1] = "seed"

\* C9, as the specification states it: numRatings and sumRating never
\* decrease from one committed state to the next.
C9_NeverDecrease ==
    [][\A r \in RestaurantIds :
          (restaurants[r].exists /\ restaurants'[r].exists) =>
              /\ NumOf(restaurants'[r]) >= NumOf(restaurants[r])
              /\ SumOf(restaurants'[r]) >= SumOf(restaurants[r])]_vars

\* C9, amended: numRatings never decreases, and sumRating decreases only in a
\* step that commits a review with a negative rating.
C9_DecreaseOnlyByNegativeRating ==
    [][\A r \in RestaurantIds :
          (restaurants[r].exists /\ restaurants'[r].exists) =>
              /\ NumOf(restaurants'[r]) >= NumOf(restaurants[r])
              /\ SumOf(restaurants'[r]) < SumOf(restaurants[r]) =>
                    \E i \in DOMAIN reviews' \ DOMAIN reviews :
                        /\ reviews'[i].restaurantId = r
                        /\ reviews'[i].data.rating.n < 0]_vars

\* A restaurant with a positive and a negative review committed
C9_Witness ==
    \E r \in RestaurantIds :
        /\ NumOf(restaurants[r]) = 2
        /\ \E i, j \in ReviewsOf(r) :
              reviews[i].data.rating.n < 0 /\ reviews[j].data.rating.n > 0
        /\ restaurants[r].data.photo = Str("u1")

\* C10: a subscription call with a callback that is not callable registers no
\* listener, and no delivery of the store ever raises.
C10_NonCallableIsNoOp ==
    /\ \A i \in 1 .. Len(subs) :
          typeof(subs[i].cb) # "function" => ~subs[i].registered
    /\ \A l \in DOMAIN listeners : listeners[l].outcome # "TypeError"

====
